---- MODULE Spec2Model ----
(***************************************************************************)
(* Voice recorder composable (useVoiceRecorder) of lingoquesto_chat and    *)
(* the VoiceRecorder.vue handlers that drive it.                           *)
(*                                                                         *)
(* The browser runs one callback at a time.  An action of this module is   *)
(* one event-loop task together with the microtasks it drains: an async    *)
(* function runs until it awaits something that is settled by a later      *)
(* task (getUserMedia, AudioContext.close, decodeAudioData, the metadata   *)
(* and FileReader events, a timer).  An await of an already settled value  *)
(* continues inside the same action.                                       *)
(***************************************************************************)
EXTENDS Integers, Sequences, FiniteSets, Bags, TLC

\* ---------------------------------------------------------------- bounds
MaxStreams == 3     \* streams getUserMedia hands out
MaxStarts == 2      \* startRecording calls (3 in OverlapSpec, which has no
                    \* other call)
MaxCalls == 3       \* calls made by the user interface or another caller
MaxChunks == 1      \* timesliced dataavailable events per MediaRecorder
MaxFairStarts == 1  \* startRecording calls in FairSpec
MaxRuns == 2        \* runs of equal samples in a decoded channel

\* ------------------------------------------------------ program constants
AutoStopAfter == 30     \* duration > 30 stops the recording
ForceStopDelay == 100   \* forceStop: setTimeout(processRecording, 100)
StopDelay == 200        \* stopRecording: setTimeout(processRecording, 200)
WatchdogDelay == 500    \* VoiceRecorder.vue: setTimeout(forceStop fallback, 500)

Null == 0
Ids == 1..MaxStreams    \* the k-th granted getUserMedia yields stream k,
                        \* and context k, recorder k and interval k with it

VARIABLES
  \* refs of the composable
  isRecordingActive, mediaRecorder, audioStream, recordingTimer, audioChunks,
  audioContext, gainNode, compressorNode,
  \* chat store
  isRecording, recordingDuration,
  \* browser objects
  physTrack,     \* microphone track of stream k: "none" | "live" | "ended"
  procTrack,     \* destination track that replaced it in stream k
  trackStops,    \* track.stop() calls made on the tracks of stream k
  ctxState,      \* AudioContext k: "none" | "running" | "closing" | "closed"
  recState,      \* MediaRecorder k: "none" | "recording" | "inactive"
  mimeType,      \* MediaRecorder k: its mimeType, "" while there is none
  delivered,     \* timesliced dataavailable events recorder k has fired
  intervals,     \* setInterval k: "none" | "armed" | "cleared"
  duration,      \* the closure variable `duration` of interval k
  behind,        \* intervals that have fired since interval k last did
  \* what the event loop still has to run
  gumPending,    \* startRecording calls awaiting getUserMedia
  closers,       \* bag of closingAudioContext calls awaiting close()
  timeouts,      \* setTimeout callbacks and queued recorder events, in
                 \* the order they were set or queued
  procs,         \* bag of processRecording calls awaiting decode / payload
  \* observations
  sent,          \* blobs handed to addMessage + sendVoiceMessage
  pushes,        \* blobs whose push() to the database has not settled
  advised,       \* blobs the no-audio alert was shown for
  escaped,       \* an exception left startRecording/stopRecording/forceStop
  event,         \* what the last task did
  \* budgets of the environment
  starts, calls,
  \* the component that uses the composable is mounted
  mounted,
  \* useRealtimeChat over a WebSocket, and over the realtime database
  transport, presence,
  \* the platform: the types MediaRecorder.isTypeSupported answers true for
  supported,
  \* one call of validateAudio and one of createVoiceMessage, followed
  \* through their awaits (ValidateSpec and PayloadSpec)
  validation, payload

recorder == << isRecordingActive, mediaRecorder, audioStream, recordingTimer,
           audioChunks, audioContext, gainNode, compressorNode, isRecording,
           recordingDuration, physTrack, procTrack, trackStops, ctxState,
           recState, mimeType, delivered, intervals, duration, behind,
           gumPending, closers, timeouts, procs, sent, pushes, advised,
           escaped,
           event, starts, calls, mounted, supported >>

vars == << recorder, validation, payload, transport, presence >>

\* The whole state as one record, so that the code's functions are operators
\* from state to state and an action composes them as the code calls them.
Cur ==
  [ isRecordingActive |-> isRecordingActive, mediaRecorder |-> mediaRecorder,
    audioStream |-> audioStream, recordingTimer |-> recordingTimer,
    audioChunks |-> audioChunks, audioContext |-> audioContext,
    gainNode |-> gainNode, compressorNode |-> compressorNode,
    isRecording |-> isRecording, recordingDuration |-> recordingDuration,
    physTrack |-> physTrack, procTrack |-> procTrack,
    trackStops |-> trackStops, ctxState |-> ctxState, recState |-> recState,
    mimeType |-> mimeType, supported |-> supported,
    delivered |-> delivered, intervals |-> intervals,
    duration |-> duration, behind |-> behind, gumPending |-> gumPending,
    closers |-> closers, timeouts |-> timeouts, procs |-> procs,
    sent |-> sent, pushes |-> pushes, advised |-> advised,
    escaped |-> escaped,
    done |-> {}, ret |-> "none", reported |-> << >>, mime |-> "",
    chunk |-> << >>, rejected |-> << >>, starts |-> starts ]

Commit(s, op) ==
  /\ isRecordingActive' = s.isRecordingActive
  /\ mediaRecorder' = s.mediaRecorder
  /\ audioStream' = s.audioStream
  /\ recordingTimer' = s.recordingTimer
  /\ audioChunks' = s.audioChunks
  /\ audioContext' = s.audioContext
  /\ gainNode' = s.gainNode
  /\ compressorNode' = s.compressorNode
  /\ isRecording' = s.isRecording
  /\ recordingDuration' = s.recordingDuration
  /\ physTrack' = s.physTrack
  /\ procTrack' = s.procTrack
  /\ trackStops' = s.trackStops
  /\ ctxState' = s.ctxState
  /\ recState' = s.recState
  /\ mimeType' = s.mimeType
  /\ supported' = s.supported
  /\ delivered' = s.delivered
  /\ intervals' = s.intervals
  /\ duration' = s.duration
  /\ behind' = s.behind
  /\ gumPending' = s.gumPending
  /\ closers' = s.closers
  /\ timeouts' = s.timeouts
  /\ procs' = s.procs
  /\ sent' = s.sent
  /\ pushes' = s.pushes
  /\ advised' = s.advised
  /\ escaped' = s.escaped
  /\ event' = [done |-> s.done, ret |-> s.ret, reported |-> s.reported,
               mime |-> s.mime, chunk |-> s.chunk, rejected |-> s.rejected]
  /\ UNCHANGED << validation, payload, transport, presence >>

RecorderInit ==
  /\ isRecordingActive = FALSE
  /\ mediaRecorder = Null
  /\ audioStream = Null
  /\ recordingTimer = Null
  /\ audioChunks = << >>
  /\ audioContext = Null
  /\ gainNode = FALSE
  /\ compressorNode = FALSE
  /\ isRecording = FALSE
  /\ recordingDuration = 0
  /\ physTrack = [k \in Ids |-> "none"]
  /\ procTrack = [k \in Ids |-> "none"]
  /\ trackStops = [k \in Ids |-> 0]
  /\ ctxState = [k \in Ids |-> "none"]
  /\ recState = [k \in Ids |-> "none"]
  /\ mimeType = [k \in Ids |-> ""]
  /\ delivered = [k \in Ids |-> 0]
  /\ intervals = [k \in Ids |-> "none"]
  /\ duration = [k \in Ids |-> 0]
  /\ behind = [k \in Ids |-> {}]
  /\ gumPending = 0
  /\ closers = EmptyBag
  /\ timeouts = << >>
  /\ procs = EmptyBag
  /\ sent = << >>
  /\ pushes = << >>
  /\ advised = << >>
  /\ escaped = FALSE
  /\ event = [done |-> {}, ret |-> "none", reported |-> << >>, mime |-> "",
              chunk |-> << >>, rejected |-> << >>]
  /\ starts = 0
  /\ calls = 0
  /\ mounted = TRUE

\* No call is followed.
NotCalled == [pc |-> "idle"]

\* const preferredMimeTypes = [...], and the default `|| 'audio/webm'`
preferredMimeTypes ==
  << "audio/webm;codecs=opus", "audio/ogg;codecs=opus", "audio/mp4" >>

DefaultMimeType == "audio/webm"

\* The platforms: every set of preferred types a browser may support.
Platforms == SUBSET {preferredMimeTypes[i] : i \in DOMAIN preferredMimeTypes}

\* A platform like Chromium, which records opus in webm and mp4.
\* ------------------------------------------------ useRealtimeChat, at rest
maxReconnectAttempts == 5       \* const maxReconnectAttempts = 5
InitialReconnectDelay == 1000   \* ref(1000), reconnectDelay.value = 1000
MaxReconnectDelay == 30000      \* Math.min(reconnectDelay.value * 2, 30000)
CleanClose == 1000              \* event.code !== 1000, close(1000, ...)
AbnormalClose == 1006           \* the code of a close the peer did not agree to
StatusDelay == 1000             \* setTimeout(..., 1000) of connect

\* WebSocket objects the page creates, and calls of the composable's user.
MaxSockets == 6
MaxTransportCalls == 3
MaxPresenceCalls == 3
\* Writes of the status handed to the database and not yet settled.
MaxWrites == 3

Sockets == 1..MaxSockets

NoEvent == [op |-> "none", code |-> 0, scheduled |-> 0, opened |-> 0]

\* The refs of the WebSocket composable after setup: socket, connectionStatus,
\* reconnectAttempts, reconnectDelay. readyState is the state of every
\* WebSocket object, reconnects the number of pending reconnect timers,
\* wanted whether the user's last call was connect, last the step just taken.
TransportInit ==
  [socket |-> Null, connectionStatus |-> "disconnected",
   reconnectAttempts |-> 0, reconnectDelay |-> InitialReconnectDelay,
   readyState |-> [i \in Sockets |-> "none"], reconnects |-> 0,
   wanted |-> FALSE, asked |-> 0, last |-> NoEvent]

\* The realtime-database composable after setup. listeners counts the
\* callbacks attached to .info/connected, timers the pending delayed status
\* updates, writes the set() calls not yet applied, status the value of
\* status/{nickname} in the database.
PresenceInit ==
  [connectionStatus |-> "disconnected", listeners |-> 0, timers |-> << >>,
   writes |-> << >>, status |-> "none", onDisconnect |-> FALSE,
   wanted |-> FALSE, asked |-> 0, last |-> "none"]

ChatIdle == transport = TransportInit /\ presence = PresenceInit

Chromium == {"audio/webm;codecs=opus", "audio/mp4"}

Init ==
  /\ RecorderInit
  /\ supported = Chromium
  /\ validation = NotCalled
  /\ payload = NotCalled
  /\ ChatIdle

\* ------------------------------------------------------------ chat store
setRecordingState_KeepsCounter(s, recording) ==
  [s EXCEPT !.isRecording = recording]

setRecordingState(s, recording) ==
  [s EXCEPT !.isRecording = recording,
            !.recordingDuration = IF recording THEN @ ELSE 0]

\* `reported` keeps the values the task has passed to it.
updateRecordingDuration(s, d) ==
  [s EXCEPT !.recordingDuration = d, !.reported = Append(@, d)]


Done(s, fn) == [s EXCEPT !.done = @ \cup {fn}]

\* ------------------------------------------------------- browser objects
\* The tracks getTracks() returns for stream k: the destination tracks once
\* setupAudioProcessing has swapped them in, the microphone tracks otherwise.
StreamLive(s, k) ==
  IF s.procTrack[k] # "none" THEN s.procTrack[k] = "live"
  ELSE s.physTrack[k] = "live"

\* setTimeout(callback, delay).  The events a recorder queues stand in the
\* same queue with delay 0: "data" is the dataavailable event of a stopped
\* recorder, "ended" the browser's own stop of a recorder whose tracks have
\* all ended.  `after` says how many startRecording calls had been made
\* when the component set its watchdog.
Queue(s, kind, delay, rec) ==
  [s EXCEPT !.timeouts =
     Append(@, [kind |-> kind, delay |-> delay, rec |-> rec, seen |-> {},
                after |-> IF kind = "watchdog" THEN s.starts ELSE 0])]

SetTimeout(s, kind, delay) == Queue(s, kind, delay, Null)

\* The queue without the pending "ended" event of recorder k.
WithoutEnded(queue, k) ==
  LET F[i \in 0..Len(queue)] ==
        IF i = 0 THEN << >>
        ELSE IF queue[i].kind = "ended" /\ queue[i].rec = k THEN F[i - 1]
        ELSE Append(F[i - 1], queue[i])
  IN F[Len(queue)]

\* MediaRecorder.stop() on a recorder that is not inactive: the state flips
\* at once and the last dataavailable is queued.  No timesliced event
\* follows, so their count is dropped, and the browser's own stop has
\* nothing left to do.
RecorderStop(s, k) ==
  Queue([s EXCEPT !.recState[k] = "inactive", !.delivered[k] = 0,
                  !.timeouts = WithoutEnded(@, k)],
        "data", 0, k)

\* Time.  An interval fires once a second; the timeouts are of 500 ms at
\* most, and close(), the decode and the payload's metadata and reader
\* events are taken to settle within a second.  So whatever was pending
\* when interval k was set or fired has run before k fires again, another
\* interval included.  `seen` and `behind` hold those k.  getUserMedia may
\* wait for the user's answer and is not bound by this.
Seen(x, k) == [x EXCEPT !.seen = @ \cup {k}]

Aged(s, k) ==
  [s EXCEPT
     !.timeouts = [i \in DOMAIN @ |-> Seen(@[i], k)],
     !.closers = BagOfAll(LAMBDA x : Seen(x, k), @),
     !.procs = BagOfAll(LAMBDA x : Seen(x, k), @),
     !.behind = [j \in Ids |->
                   IF j # k /\ s.intervals[j] = "armed" THEN @[j] \cup {k}
                   ELSE {}]]

CanTick(k) ==
  /\ \A i \in DOMAIN timeouts : k \notin timeouts[i].seen
  /\ \A x \in BagToSet(closers) \cup BagToSet(procs) : k \notin x.seen
  /\ \A j \in Ids : k \notin behind[j]

\* ------------------------------------------------- pieces of the teardown
StopTracks_KeepsStream(s) ==
  IF s.audioStream = Null THEN s
  ELSE LET k == s.audioStream
       IN [s EXCEPT !.procTrack[k] = IF @ = "live" THEN "ended" ELSE @,
                    !.physTrack[k] =
                      IF s.procTrack[k] = "none" /\ @ = "live" THEN "ended"
                      ELSE @,
                    !.trackStops[k] = @ + 1]

\* if (audioStream.value) { every live track .stop(); audioStream.value = null }
\* A recorder still recording the stream is stopped by the browser later.
StopTracks(s) ==
  IF s.audioStream = Null THEN s
  ELSE LET k == s.audioStream
           s1 == [s EXCEPT
                   !.procTrack[k] = IF @ = "live" THEN "ended" ELSE @,
                   !.physTrack[k] =
                     IF s.procTrack[k] = "none" /\ @ = "live" THEN "ended"
                     ELSE @,
                   !.trackStops[k] = IF StreamLive(s, k) THEN @ + 1 ELSE @,
                   !.audioStream = Null]
       IN IF StreamLive(s, k) /\ s.recState[k] = "recording"
          THEN Queue(s1, "ended", 0, k) ELSE s1

\* if (recordingTimer.value) { clearInterval(...); recordingTimer.value = null }
\* A cleared interval never runs again: its closure variable is dropped.
ClearTimer(s) ==
  IF s.recordingTimer = Null THEN s
  ELSE [s EXCEPT !.intervals[s.recordingTimer] = "cleared",
                 !.duration[s.recordingTimer] = 0,
                 !.behind[s.recordingTimer] = {},
                 !.recordingTimer = Null]

\* The first four statements shared by stopRecording, forceStop and cleanup.
Release(s) ==
  StopTracks(setRecordingState(
    ClearTimer([s EXCEPT !.isRecordingActive = FALSE]), FALSE))

\* ---------------------------------------- what runs after the close await
\* The caller's code after `await voiceRecorder.stopRecording()`.
Return(s, then) ==
  IF then = "watchdog" THEN SetTimeout(s, "watchdog", WatchdogDelay) ELSE s

\* stopRecording after `await closingAudioContext()`
StopTail(s, then) ==
  LET r == s.mediaRecorder
      s1 == IF r # Null /\ s.recState[r] = "recording"
            THEN RecorderStop(s, r) ELSE s
      s2 == SetTimeout(s1, "process", StopDelay)
  IN Return(Done(s2, "stopRecording"), then)

\* forceStop after `await closingAudioContext()`; delegated says that
\* stopRecording called it and returns right after it.
ForceTail(s, delegated, then) ==
  LET r == s.mediaRecorder
      s1 == IF r # Null /\ s.recState[r] # "inactive"
            THEN RecorderStop(s, r) ELSE s
      s2 == Done(SetTimeout(s1, "process", ForceStopDelay), "forceStop")
  IN Return(IF delegated THEN Done(s2, "stopRecording") ELSE s2, then)

\* cleanup after `await closingAudioContext()`, and then its caller:
\* "acquire" is startRecording going on to getUserMedia, "catch" is
\* startRecording's catch block returning false, "process" is
\* processRecording returning.
CleanupTail(s, then) ==
  LET r == s.mediaRecorder
      s1 == IF r = Null THEN s
            ELSE [(IF s.recState[r] # "inactive" THEN RecorderStop(s, r)
                   ELSE s) EXCEPT !.mediaRecorder = Null]
      s2 == Done([s1 EXCEPT !.audioChunks = << >>], "cleanup")
  IN CASE then = "acquire" -> [s2 EXCEPT !.gumPending = @ + 1]
       [] then = "catch" -> [Done(s2, "startRecording") EXCEPT !.ret = "false"]
       [] then = "process" -> Done(s2, "processRecording")
       [] OTHER -> s2

Resume(s, frame) ==
  CASE frame.kind = "stop" -> StopTail(s, frame.then)
    [] frame.kind = "force" -> ForceTail(s, FALSE, frame.then)
    [] frame.kind = "stopForce" -> ForceTail(s, TRUE, frame.then)
    [] OTHER -> CleanupTail(s, frame.then)

\* closingAudioContext, called by the function that `frame` continues.
\* A context whose close() is still pending reads as closed or rejects a
\* second close() (both leave the refs alone: twice = "settled"), or lets
\* the second close() wait for the first (twice = "pending").
CloseOutcomes == {"settled", "pending"}

closingAudioContext(s, frame, twice) ==
  LET c == s.audioContext
      wait(st) == [s EXCEPT !.ctxState[c] = st,
                            !.closers = @ (+) SetToBag({[frame EXCEPT !.ctx = c]})]
  IN IF c = Null
     THEN Resume([s EXCEPT !.gainNode = FALSE, !.compressorNode = FALSE], frame)
     ELSE IF s.ctxState[c] = "closed" THEN Resume(s, frame)
     ELSE IF s.ctxState[c] = "running" THEN wait("closing")
     ELSE IF twice = "pending" THEN wait("closing")
     ELSE Resume(s, frame)

Frame(kind, then) ==
  [kind |-> kind, then |-> then, ctx |-> Null, seen |-> {}]

\* ---------------------------------------------------- the code's functions
cleanup(s, then, twice) ==
  closingAudioContext(Release(s), Frame("cleanup", then), twice)

forceStop(s, delegated, then, twice) ==
  closingAudioContext(Release(s),
    Frame(IF delegated THEN "stopForce" ELSE "force", then), twice)

stopRecording_FlagOnly(s, then, twice) ==
  IF ~s.isRecordingActive
  THEN IF s.isRecording
       THEN forceStop(s, TRUE, then, twice)
       ELSE Return(Done(s, "stopRecording"), then)
  ELSE closingAudioContext(Release(s), Frame("stop", then), twice)

stopRecording(s, then, twice) ==
  IF ~s.isRecordingActive
  THEN IF \/ s.isRecording
          \/ s.audioStream # Null
          \/ (s.mediaRecorder # Null /\ s.recState[s.mediaRecorder] = "recording")
       THEN forceStop(s, TRUE, then, twice)
       ELSE Return(Done(s, "stopRecording"), then)
  ELSE closingAudioContext(Release(s), Frame("stop", then), twice)

startRecording_NoGuard(s, twice) == cleanup(s, "acquire", twice)

startRecording(s, twice) ==
  IF s.isRecordingActive
  THEN [Done(s, "startRecording") EXCEPT !.ret = "false"]
  ELSE cleanup(s, "acquire", twice)

\* setupAudioProcessing(stream k).  setup = "ok": the graph is built and the
\* destination tracks replace the microphone tracks in the stream.
\* "noContext": new AudioContext() throws.  "noGraph": a later step throws,
\* after audioContext.value was assigned.
SetupOutcomes == {"ok", "noContext", "noGraph"}

setupAudioProcessing(s, k, setup) ==
  CASE setup = "ok" ->
         [s EXCEPT !.audioContext = k, !.ctxState[k] = "running",
                   !.procTrack[k] = "live",
                   !.compressorNode = TRUE, !.gainNode = TRUE]
    [] setup = "noGraph" ->
         [s EXCEPT !.audioContext = k, !.ctxState[k] = "running"]
    [] OTHER -> s

\* Array.prototype.find: the first element of types the platform supports,
\* "" (undefined) when there is none.
find(types, platform) ==
  LET F[i \in 1..(Len(types) + 1)] ==
        IF i > Len(types) THEN ""
        ELSE IF types[i] \in platform THEN types[i]
        ELSE F[i + 1]
  IN F[1]

negotiate_NoDefault(platform) == find(preferredMimeTypes, platform)

\* preferredMimeTypes.find(MediaRecorder.isTypeSupported) || 'audio/webm'
negotiate(platform) ==
  LET found == find(preferredMimeTypes, platform)
  IN IF found = "" THEN DefaultMimeType ELSE found

startTimer(s, k) ==
  Aged([updateRecordingDuration(s, 0) EXCEPT
          !.duration[k] = 0, !.intervals[k] = "armed", !.recordingTimer = k],
       k)

\* startRecording from the point where getUserMedia has resolved with
\* stream k.
Granted(s, k, setup) ==
  LET s1 == setupAudioProcessing([s EXCEPT !.physTrack[k] = "live"], k, setup)
      s2 == [s1 EXCEPT !.audioStream = k, !.audioChunks = << >>,
                       !.isRecordingActive = TRUE]
      s3 == [s2 EXCEPT !.mediaRecorder = k, !.recState[k] = "recording",
                       !.mimeType[k] = negotiate(s.supported)]
      s4 == startTimer(setRecordingState(s3, TRUE), k)
  IN [Done(s4, "startRecording") EXCEPT !.ret = "true"]

\* validateAudio returns to processRecording: the clip goes on to
\* createVoiceMessage, or the alert is shown and the finally block runs
\* cleanup.
validated(s, p, valid, twice) ==
  IF valid
  THEN [s EXCEPT !.procs = @ (+)
          SetToBag({[p EXCEPT !.stage = "create", !.seen = {}]})]
  ELSE cleanup(Done([s EXCEPT !.advised = Append(@, p.blob)], "alert"),
               "process", twice)

BlobType_Default(s) == DefaultMimeType

\* new Blob(chunks, {type: mediaRecorder.value?.mimeType || 'audio/webm'})
BlobType(s) ==
  IF s.mediaRecorder = Null \/ s.mimeType[s.mediaRecorder] = ""
  THEN DefaultMimeType
  ELSE s.mimeType[s.mediaRecorder]

Blob(s) ==
  [stage |-> "validate", blob |-> s.audioChunks, type |-> BlobType(s),
   seen |-> {}]

processRecording_NoCleanup(s, small, twice) ==
  LET p == Blob(s)
  IN IF s.audioChunks = << >> THEN Done(s, "processRecording")
     ELSE IF small THEN validated(s, p, FALSE, twice)
     ELSE [s EXCEPT !.procs = @ (+) SetToBag({p})]

processRecording_AlertsEmpty(s, small, twice) ==
  LET p == Blob(s)
  IN IF s.audioChunks = << >> \/ small
     THEN validated(Done(s, "validateAudio"), p, FALSE, twice)
     ELSE [Done(s, "validateAudio") EXCEPT !.procs = @ (+) SetToBag({p})]

\* processRecording up to its first wait.  small: the clip is under 500
\* bytes, which validateAudio rejects before it decodes anything.
processRecording(s, small, twice) ==
  LET p == Blob(s)
  IN IF s.audioChunks = << >>
     THEN cleanup(Done(s, "noChunks"), "process", twice)
     ELSE IF small THEN validated(Done(s, "validateAudio"), p, FALSE, twice)
     ELSE [Done(s, "validateAudio") EXCEPT !.procs = @ (+) SetToBag({p})]

\* recorder.ondataavailable of recorder k, with event.data.size = size.
\* `chunk` keeps what the task was given.
ondataavailable(s, k, size) ==
  IF size > 0 /\ s.isRecordingActive
  THEN [s EXCEPT !.audioChunks = Append(@, k), !.chunk = << k, size >>]
  ELSE [s EXCEPT !.chunk = << k, size >>]


\* ---------------------------------------------------------------- actions
\* The id of the next stream getUserMedia hands out.
NextId == 1 + Cardinality({k \in Ids : physTrack[k] # "none"})

Called == calls' = calls + 1 /\ UNCHANGED << starts, mounted >>

Frozen == UNCHANGED << starts, calls, mounted >>

\* VoiceRecorder.vue startRecording (pointer down): the store's flag guards
\* the call of the composable's startRecording.
PointerDown(maxStarts, maxCalls) ==
  /\ starts < maxStarts
  /\ calls < maxCalls
  /\ ~isRecording
  /\ \E twice \in CloseOutcomes :
       Commit(startRecording(Cur, twice), "UIStart")
  /\ starts' = starts + 1
  /\ calls' = calls + 1
  /\ UNCHANGED mounted

UIStart == PointerDown(MaxStarts, MaxCalls)

\* VoiceRecorder.vue stopRecording (pointer up): stopRecording, and once it
\* has returned the 500 ms watchdog is set.
UIStop ==
  /\ calls < MaxCalls
  /\ \E twice \in CloseOutcomes :
       Commit(stopRecording(Cur, "watchdog", twice), "UIStop")
  /\ Called

\* getUserMedia resolves: the rest of startRecording's try block.
GumGranted ==
  /\ gumPending > 0
  /\ NextId \in Ids
  /\ \E setup \in SetupOutcomes :
       Commit(Granted([Cur EXCEPT !.gumPending = @ - 1], NextId, setup),
              "GumGranted")
  /\ Frozen

\* getUserMedia rejects: startRecording's catch block.
GumDenied ==
  /\ gumPending > 0
  /\ \E twice \in CloseOutcomes :
       Commit(cleanup([Cur EXCEPT !.gumPending = @ - 1], "catch", twice),
              "GumDenied")
  /\ Frozen

\* close() of context frame.ctx resolves: the rest of closingAudioContext's
\* try block, then the function that awaited it.
CloseResolved ==
  /\ \E frame \in BagToSet(closers) :
       LET s == [Cur EXCEPT !.closers = @ (-) SetToBag({frame}),
                            !.ctxState[frame.ctx] = "closed",
                            !.audioContext = Null,
                            !.gainNode = FALSE,
                            !.compressorNode = FALSE]
       IN Commit(Resume(s, frame), "CloseResolved")
  /\ Frozen

\* A timesliced dataavailable event of recorder k (start(250)); size 0 is
\* an empty chunk.
DataAvailable ==
  /\ \E k \in Ids, size \in {0, 1} :
       /\ recState[k] = "recording"
       /\ delivered[k] < MaxChunks
       /\ Commit(ondataavailable([Cur EXCEPT !.delivered[k] = @ + 1], k, size),
                 "DataAvailable")
  /\ Frozen

\* The setInterval callback of startTimer, interval k.
tick(s, k, twice) ==
  IF ~s.isRecordingActive THEN ClearTimer(s)
  ELSE LET d == s.duration[k] + 1
           s1 == updateRecordingDuration([s EXCEPT !.duration[k] = d], d)
       IN IF d > AutoStopAfter THEN stopRecording(s1, "none", twice) ELSE s1

TickOf(k) ==
  /\ intervals[k] = "armed"
  /\ CanTick(k)
  /\ \E twice \in CloseOutcomes : Commit(tick(Aged(Cur, k), k, twice), "Tick")
  /\ Frozen

Tick == \E k \in Ids : TickOf(k)

\* Timers of one window fire in the order of their deadlines: a callback set
\* earlier with a delay that is no longer fires first.
CanFire(i) == \A j \in 1..(i - 1) : timeouts[j].delay > timeouts[i].delay

Remove(seq, i) == SubSeq(seq, 1, i - 1) \o SubSeq(seq, i + 1, Len(seq))

\* The dataavailable event a stopped recorder fires before its stop event.
LastData ==
  /\ \E i \in 1..Len(timeouts), size \in {0, 1} :
       /\ timeouts[i].kind = "data"
       /\ CanFire(i)
       /\ Commit(ondataavailable([Cur EXCEPT !.timeouts = Remove(@, i)],
                                 timeouts[i].rec, size), "LastData")
  /\ Frozen

\* All tracks of the recorded stream have ended: the browser stops the
\* recorder, whose last dataavailable fires in the same task.
TracksEnded ==
  /\ \E i \in 1..Len(timeouts), size \in {0, 1} :
       /\ timeouts[i].kind = "ended"
       /\ CanFire(i)
       /\ LET k == timeouts[i].rec
              s == [Cur EXCEPT !.timeouts = Remove(@, i),
                               !.recState[k] = "inactive",
                               !.delivered[k] = 0]
          IN Commit(ondataavailable(s, k, size), "TracksEnded")
  /\ Frozen

\* setTimeout(processRecording) of stopRecording or forceStop fires.
ProcessFires ==
  /\ \E i \in 1..Len(timeouts), small \in BOOLEAN, twice \in CloseOutcomes :
       /\ timeouts[i].kind = "process"
       /\ CanFire(i)
       /\ Commit(processRecording(
                   [Cur EXCEPT !.timeouts = Remove(@, i)], small, twice),
                 "ProcessFires")
  /\ Frozen

\* The 500 ms callback of VoiceRecorder.vue fires.
watchdog(s, twice) ==
  IF s.isRecording THEN forceStop(s, FALSE, "none", twice) ELSE s

WatchdogFires ==
  /\ \E i \in 1..Len(timeouts), twice \in CloseOutcomes :
       /\ timeouts[i].kind = "watchdog"
       /\ CanFire(i)
       /\ Commit(watchdog([Cur EXCEPT !.timeouts = Remove(@, i)], twice),
                 "WatchdogFires")
  /\ Frozen

\* validateAudio returns to processRecording after a decode.
Validated ==
  /\ \E p \in BagToSet(procs), valid \in BOOLEAN, twice \in CloseOutcomes :
       /\ p.stage = "validate"
       /\ Commit(validated([Cur EXCEPT !.procs = @ (-) SetToBag({p})],
                           p, valid, twice), "Validated")
  /\ Frozen

\* mimeType: audioBlob.type || 'audio/webm'
MessageType(p) == IF p.type = "" THEN DefaultMimeType ELSE p.type

\* createVoiceMessage returns to processRecording: with ok it has called
\* addMessage and sendVoiceMessage, which it does not await, otherwise its catch block logged an
\* error; the finally block runs cleanup.
created(s, p, ok, twice) ==
  cleanup(IF ok THEN Done([s EXCEPT !.sent = Append(@, p.blob),
                                     !.pushes = Append(@, p.blob),
                                     !.mime = MessageType(p)], "sink")
          ELSE s, "process", twice)

Created ==
  /\ \E p \in BagToSet(procs), ok \in BOOLEAN, twice \in CloseOutcomes :
       /\ p.stage = "create"
       /\ Commit(created([Cur EXCEPT !.procs = @ (-) SetToBag({p})],
                         p, ok, twice), "Created")
  /\ Frozen

Next ==
  \/ UIStart
  \/ UIStop
  \/ GumGranted
  \/ GumDenied
  \/ CloseResolved
  \/ DataAvailable
  \/ LastData
  \/ TracksEnded
  \/ Tick
  \/ ProcessFires
  \/ WatchdogFires
  \/ Validated
  \/ Created

Spec == Init /\ [][Next]_vars

\* ------------------------------------------------------------------------
\* The composable on its own: its three functions called by any caller in
\* any state, without the component's guard and watchdog.
ApiStart ==
  /\ starts < MaxStarts
  /\ calls < MaxCalls
  /\ \E twice \in CloseOutcomes :
       Commit(startRecording(Cur, twice), "ApiStart")
  /\ starts' = starts + 1
  /\ calls' = calls + 1
  /\ UNCHANGED mounted

ApiStop ==
  /\ calls < MaxCalls
  /\ \E twice \in CloseOutcomes :
       Commit(stopRecording(Cur, "none", twice), "ApiStop")
  /\ Called

ApiForceStop ==
  /\ calls < MaxCalls
  /\ \E twice \in CloseOutcomes :
       Commit(forceStop(Cur, FALSE, "none", twice), "ApiForceStop")
  /\ Called

Browser ==
  \/ GumGranted
  \/ GumDenied
  \/ CloseResolved
  \/ DataAvailable
  \/ LastData
  \/ TracksEnded
  \/ Tick
  \/ ProcessFires
  \/ Validated
  \/ Created

ApiNext ==
  \/ ApiStart
  \/ ApiStop
  \/ ApiForceStop
  \/ Browser

ApiSpec == Init /\ [][ApiNext]_vars

\* ------------------------------------------------------------------------
\* A caller that may call startRecording first, awaits its result, and from
\* then on calls nothing but forceStop.
ForceStart == calls = 0 /\ ApiStart

ForceStopAgain == gumPending = 0 /\ ApiForceStop

ForceNext ==
  \/ ForceStart
  \/ ForceStopAgain
  \/ Browser

ForceSpec == Init /\ [][ForceNext]_vars

\* ------------------------------------------------------------------------
\* The first second after pointer-down events, as many as there are
\* streams: every call of startRecording may overlap the others, and no
\* interval has ticked yet.
OverlapStart == PointerDown(MaxStreams, MaxStreams)

OverlapNext ==
  \/ OverlapStart
  \/ GumGranted
  \/ GumDenied
  \/ CloseResolved
  \/ DataAvailable
  \/ TracksEnded
  \/ LastData

OverlapSpec == Init /\ [][OverlapNext]_vars

\* ------------------------------------------------------------------------
\* The component with a browser that keeps going: as long as a close() can
\* settle, a timer or an interval can fire, a recorder has an event to
\* deliver or a decode or a payload event can settle, one of them does.
\* getUserMedia may wait for the user for ever.
Drain ==
  \/ CloseResolved
  \/ LastData
  \/ TracksEnded
  \/ Tick
  \/ ProcessFires
  \/ WatchdogFires
  \/ Validated
  \/ Created

FairStart == PointerDown(MaxFairStarts, MaxCalls)

FairNext ==
  \/ FairStart
  \/ UIStop
  \/ GumGranted
  \/ GumDenied
  \/ DataAvailable
  \/ Drain

FairSpec == Init /\ [][FairNext]_vars /\ WF_vars(Drain)

\* ------------------------------------------------------------------------
\* The component on every platform, for sessions that are stopped within
\* their first second: no interval ticks.
CodecInit ==
  /\ RecorderInit
  /\ supported \in Platforms
  /\ validation = NotCalled
  /\ payload = NotCalled
  /\ ChatIdle

CodecNext ==
  \/ UIStart
  \/ UIStop
  \/ GumGranted
  \/ GumDenied
  \/ CloseResolved
  \/ DataAvailable
  \/ LastData
  \/ TracksEnded
  \/ ProcessFires
  \/ WatchdogFires
  \/ Validated
  \/ Created

CodecSpec == CodecInit /\ [][CodecNext]_vars

\* ------------------------------------------------------------------------
\* The component together with the transport: the push() of sendVoiceMessage
\* settles in a later task.  When it rejects, sendVoiceMessage logs the
\* error and rethrows it, and nobody awaits its promise.
sendVoiceMessage(s, i, ok) ==
  [s EXCEPT !.pushes = Remove(@, i),
            !.rejected = IF ok THEN << >> ELSE s.pushes[i]]

PushSettled ==
  /\ \E i \in DOMAIN pushes, ok \in BOOLEAN :
       Commit(Done(sendVoiceMessage(Cur, i, ok), "sendVoiceMessage"),
              "PushSettled")
  /\ Frozen

SinkNext ==
  \/ CodecNext
  \/ PushSettled

SinkSpec == Init /\ [][SinkNext]_vars

\* ------------------------------------------------------------------------
\* The component with encoders that may fail.
onerror_Ignored(s, twice) == Done(s, "onerror")

\* recorder.onerror = () => stopRecording()
onerror(s, twice) == stopRecording(Done(s, "onerror"), "none", twice)

\* Recorder k cannot go on: the browser makes it inactive and fires error,
\* dataavailable with what it has gathered, and stop, one after the other;
\* the microtasks of a handler run before the next handler is called.
RecorderError ==
  /\ \E k \in Ids, size \in {0, 1}, twice \in CloseOutcomes :
       /\ recState[k] = "recording"
       /\ LET s == [Cur EXCEPT !.recState[k] = "inactive",
                               !.delivered[k] = 0,
                               !.timeouts = WithoutEnded(@, k)]
          IN Commit(ondataavailable(onerror(s, twice), k, size),
                    "RecorderError")
  /\ Frozen

ErrorNext ==
  \/ CodecNext
  \/ RecorderError

ErrorSpec == Init /\ [][ErrorNext]_vars

\* ------------------------------------------------------------------------
\* One press of the button: the first call is the component's
\* startRecording, and every call after it is its stopRecording.
PressStart == calls = 0 /\ UIStart

PressNext ==
  \/ PressStart
  \/ UIStop
  \/ GumGranted
  \/ GumDenied
  \/ DataAvailable
  \/ Drain

PressSpec == Init /\ [][PressNext]_vars

\* ------------------------------------------------------------------------
\* The component until and after it is unmounted: onUnmounted runs cleanup,
\* and an unmounted component gets no pointer events.
MountedStart == mounted /\ UIStart

MountedStop == mounted /\ UIStop

\* onUnmounted(async () => { await cleanup() })
Unmount ==
  /\ mounted
  /\ mounted' = FALSE
  /\ \E twice \in CloseOutcomes :
       Commit(Done(cleanup(Cur, "unmount", twice), "onUnmounted"), "Unmount")
  /\ UNCHANGED << starts, calls >>

UnmountNext ==
  \/ MountedStart
  \/ MountedStop
  \/ Unmount
  \/ GumGranted
  \/ GumDenied
  \/ CloseResolved
  \/ DataAvailable
  \/ LastData
  \/ TracksEnded
  \/ ProcessFires
  \/ WatchdogFires
  \/ Validated
  \/ Created

UnmountSpec == Init /\ [][UnmountNext]_vars

\* ------------------------------------------------------------------------
\* validateAudio, one call followed from its entry to its return.  Amplitudes
\* are in units of 0.0001 and durations in tenths of a second, so that the
\* thresholds of the code are whole numbers.
MinBytes == 500          \* audioBlob.size < 500, audioBlob.size > 500
BytesPerSecond == 16000  \* audioBlob.size / 16000
NoiseFloor == 10         \* sample > 0.001
AverageFloor == 10       \* average > 0.001
PeakFloor == 100         \* peak > 0.01
ContentParts == 10       \* nonZeroRatio > 0.1
MinTenths == 5           \* audioBuffer.duration > 0.5, estimatedDuration > 0.5

\* The clips tried: sizes and durations on both sides of the thresholds, and
\* channel data given as runs of n samples of one amplitude.
SizeSamples == {0, 499, 500, 501, 8000, 8001}
AmplitudeSamples == {0, 10, 11, 100, 101}
RunLengths == {1, 9, 10}
TenthsSamples == {0, 5, 6, 30}

RunSamples == [amp : AmplitudeSamples, n : RunLengths]

ChannelSamples ==
  UNION {[1..len -> RunSamples] : len \in 1..MaxRuns}

\* if (audioBlob.size < 500) return false
TooSmall_Inclusive(size) == size <= MinBytes

TooSmall(size) == size < MinBytes

\* The loop over channelData and the statistics after it.
Analyse(data) ==
  LET F[i \in 0..Len(data)] ==
        IF i = 0 THEN [sum |-> 0, peak |-> 0, nonZeroSamples |-> 0, length |-> 0]
        ELSE LET a == F[i - 1]
                 r == data[i]
             IN [sum |-> a.sum + r.amp * r.n,
                 peak |-> IF r.amp > a.peak THEN r.amp ELSE a.peak,
                 nonZeroSamples |->
                   a.nonZeroSamples + (IF r.amp > NoiseFloor THEN r.n ELSE 0),
                 length |-> a.length + r.n]
  IN F[Len(data)]

isValid_AnyOf(data, tenths) ==
  LET a == Analyse(data)
  IN \/ a.sum > AverageFloor * a.length
     \/ a.peak > PeakFloor
     \/ a.nonZeroSamples * ContentParts > a.length
     \/ tenths > MinTenths

\* isValid = (hasAverage || hasPeak || hasContent) && hasMinDuration, with
\* average = sum / length and nonZeroRatio = nonZeroSamples / length.
isValid(data, tenths) ==
  LET a == Analyse(data)
      hasAverage == a.sum > AverageFloor * a.length
      hasPeak == a.peak > PeakFloor
      hasContent == a.nonZeroSamples * ContentParts > a.length
      hasMinDuration == tenths > MinTenths
  IN (hasAverage \/ hasPeak \/ hasContent) /\ hasMinDuration

Fallback_SizeOnly(size) == size > MinBytes

\* The catch block: size > 500 && size / 16000 > 0.5
Fallback(size) == size > MinBytes /\ size * 10 > MinTenths * BytesPerSecond

\* decodes: "ok", "fails" (decodeAudioData rejects) or "noContext" (new
\* AudioContext() throws).
ValidationInputs ==
  {[pc |-> "called", size |-> z, decodes |-> "ok", data |-> d, tenths |-> u,
    ctx |-> "none", result |-> FALSE] :
     z \in SizeSamples, d \in ChannelSamples, u \in TenthsSamples}
  \cup
  {[pc |-> "called", size |-> z, decodes |-> o, data |-> << >>, tenths |-> 0,
    ctx |-> "none", result |-> FALSE] :
     z \in SizeSamples, o \in {"fails", "noContext"}}

Returns(v, result) == [v EXCEPT !.pc = "returned", !.result = result]

\* validateAudio up to its first wait.
validateAudio(v) ==
  IF TooSmall(v.size) THEN Returns(v, FALSE)
  ELSE IF v.decodes = "noContext" THEN Returns(v, Fallback(v.size))
  ELSE [v EXCEPT !.pc = "decoding", !.ctx = "running"]

ValidateCalled ==
  /\ validation.pc = "called"
  /\ validation' = validateAudio(validation)
  /\ UNCHANGED << recorder, payload, transport, presence >>

\* arrayBuffer() and decodeAudioData() have settled: the analysis and then
\* the wait for close(), or the catch block.
Decoded ==
  /\ validation.pc = "decoding"
  /\ validation' =
       IF validation.decodes = "ok"
       THEN [validation EXCEPT !.pc = "closing", !.ctx = "closing"]
       ELSE Returns(validation, Fallback(validation.size))
  /\ UNCHANGED << recorder, payload, transport, presence >>

\* close() of the decode context has resolved: validateAudio returns isValid.
ContextClosed ==
  /\ validation.pc = "closing"
  /\ validation' =
       Returns([validation EXCEPT !.ctx = "closed"],
               isValid(validation.data, validation.tenths))
  /\ UNCHANGED << recorder, payload, transport, presence >>

ValidateNext ==
  \/ ValidateCalled
  \/ Decoded
  \/ ContextClosed

ValidateInit ==
  /\ RecorderInit
  /\ supported = Chromium
  /\ validation \in ValidationInputs
  /\ payload = NotCalled
  /\ ChatIdle

ValidateSpec == ValidateInit /\ [][ValidateNext]_vars

\* ------------------------------------------------------------------------
\* createVoiceMessage, one call followed from its entry to the sink.
\* Durations are in tenths of a second: a whole number of seconds is a
\* multiple of 10.
MinSeconds == 1     \* Math.max(1, ...)
MaxSeconds == 30    \* Math.min(30, duration)

\* The clips tried: audio.duration as the metadata give it, and sizes whose
\* estimate is 0, 1, 31 and 32 seconds.
MetadataSamples ==
  {[kind |-> k, tenths |-> 0] : k \in {"NaN", "Infinity"}}
  \cup {[kind |-> "finite", tenths |-> u] :
          u \in {-10, 0, 4, 5, 15, 304, 305, 600}}

ByteSamples == {0, 15999, 16000, 496000, 512000}

Max(a, b) == IF a > b THEN a ELSE b

Min(a, b) == IF a < b THEN a ELSE b

\* Math.max(1, Math.floor(audioBlob.size / 16000))
estimate(size) == 10 * Max(MinSeconds, size \div BytesPerSecond)

\* Math.round of a duration that is not negative
round(tenths) == 10 * ((tenths + 5) \div 10)

\* audio.onloadedmetadata
onloadedmetadata(meta, size) ==
  IF meta.kind # "finite" \/ meta.tenths <= 0 THEN estimate(size)
  ELSE round(meta.tenths)

validatedDuration_Unclamped(d) == d

\* Math.max(1, Math.min(30, duration))
validatedDuration(d) == Max(10 * MinSeconds, Min(10 * MaxSeconds, d))

\* timer is the 3 s timeout of getAudioDuration, media the events the Audio
\* element has fired, settled and value the promise getAudioDuration
\* returned.
PayloadInputs ==
  {[pc |-> "called", size |-> z, meta |-> m, timer |-> "none", media |-> {},
    settled |-> FALSE, value |-> 0, duration |-> 0] :
     z \in ByteSamples, m \in MetadataSamples}

\* createVoiceMessage calls getAudioDuration, which sets its 3 s timer and
\* loads the clip in an Audio element.
CreateCalled ==
  /\ payload.pc = "called"
  /\ payload' = [payload EXCEPT !.pc = "awaiting", !.timer = "armed"]
  /\ UNCHANGED << recorder, validation, transport, presence >>

resolve_Overwrites(p, d) == [p EXCEPT !.settled = TRUE, !.value = d]

\* resolve(d) of the promise: a settled promise stays as it is.
resolve(p, d) ==
  IF p.settled THEN p ELSE [p EXCEPT !.settled = TRUE, !.value = d]

\* clearTimeout(timeout)
clearTimeout(p) == [p EXCEPT !.timer = IF @ = "armed" THEN "cleared" ELSE @]

\* createVoiceMessage after `await getAudioDuration`: it clamps the value
\* and starts the FileReader.
Resumed(p) ==
  IF p.pc = "awaiting" /\ p.settled
  THEN [p EXCEPT !.pc = "reading", !.duration = validatedDuration(p.value)]
  ELSE p

\* A handler of getAudioDuration resolves with d, and createVoiceMessage
\* goes on if it was waiting.
Resolved(p, d) == Resumed(resolve(p, d))

\* audio.onloadedmetadata, which the element fires once at most; the
\* handlers stay on the element after the timeout.
MetadataLoaded ==
  /\ payload.pc # "called"
  /\ "loadedmetadata" \notin payload.media
  /\ payload' =
       Resolved(clearTimeout([payload EXCEPT !.media = @ \cup {"loadedmetadata"}]),
                onloadedmetadata(payload.meta, payload.size))
  /\ UNCHANGED << recorder, validation, transport, presence >>

\* audio.onerror
AudioError ==
  /\ payload.pc # "called"
  /\ "error" \notin payload.media
  /\ payload' =
       Resolved(clearTimeout([payload EXCEPT !.media = @ \cup {"error"}]),
                estimate(payload.size))
  /\ UNCHANGED << recorder, validation, transport, presence >>

\* The 3 s timeout fires, unless it was cleared.
DurationTimeout ==
  /\ payload.pc # "called"
  /\ payload.timer = "armed"
  /\ payload' = Resolved([payload EXCEPT !.timer = "fired"],
                         estimate(payload.size))
  /\ UNCHANGED << recorder, validation, transport, presence >>

\* reader.onloadend: the message is built and handed to addMessage and
\* sendVoiceMessage.
ReaderDone ==
  /\ payload.pc = "reading"
  /\ payload' = [payload EXCEPT !.pc = "sent"]
  /\ UNCHANGED << recorder, validation, transport, presence >>

\* reader.onerror: the catch block logs the error.
ReaderError ==
  /\ payload.pc = "reading"
  /\ payload' = [payload EXCEPT !.pc = "failed"]
  /\ UNCHANGED << recorder, validation, transport, presence >>

PayloadNext ==
  \/ CreateCalled
  \/ MetadataLoaded
  \/ AudioError
  \/ DurationTimeout
  \/ ReaderDone
  \/ ReaderError

PayloadInit ==
  /\ RecorderInit
  /\ supported = Chromium
  /\ validation = NotCalled
  /\ payload \in PayloadInputs
  /\ ChatIdle

PayloadSpec == PayloadInit /\ [][PayloadNext]_vars

\* The same with a clock that goes on: the timeout fires when it is due.
PayloadFairSpec == PayloadSpec /\ WF_vars(DurationTimeout)

\* ------------------------------------------------------------------------
\* useRealtimeChat over a WebSocket. The functions take the composable's
\* state t and give the state at their return.
Begin(t, op) == [t EXCEPT !.last = [NoEvent EXCEPT !.op = op]]

\* The object the next `new WebSocket(wsUrl)` creates.
Fresh(t) == Cardinality({i \in Sockets : t.readyState[i] # "none"}) + 1

\* scheduleReconnect: setTimeout(connect, reconnectDelay), then the backoff.
scheduleReconnect(t) ==
  IF t.reconnectAttempts >= maxReconnectAttempts THEN t
  ELSE [t EXCEPT !.reconnectAttempts = @ + 1,
                 !.reconnects = @ + 1,
                 !.last.scheduled = t.reconnectDelay,
                 !.reconnectDelay = Min(@ * 2, MaxReconnectDelay)]

\* connect: nothing when the held socket is open; otherwise a new WebSocket
\* with its handlers. The constructor throws for a malformed URL only, and
\* wsUrl is a well-formed constant, so the catch branch is never entered.
connect(t) ==
  IF t.socket # Null /\ t.readyState[t.socket] = "open" THEN t
  ELSE [t EXCEPT !.connectionStatus = "connecting",
                 !.socket = Fresh(t),
                 !.readyState[Fresh(t)] = "connecting",
                 !.last.opened = Fresh(t)]

\* socket.onopen
onopen(t) ==
  [t EXCEPT !.connectionStatus = "connected",
            !.reconnectAttempts = 0,
            !.reconnectDelay = InitialReconnectDelay]

\* socket.onclose with the reconnect on every close code.
onclose_AnyCode(t, code) ==
  LET closed == [t EXCEPT !.connectionStatus = "disconnected",
                          !.socket = Null,
                          !.last.code = code]
  IN IF closed.reconnectAttempts < maxReconnectAttempts
       THEN scheduleReconnect(closed)
       ELSE closed

\* socket.onclose
onclose(t, code) ==
  LET closed == [t EXCEPT !.connectionStatus = "disconnected",
                          !.socket = Null,
                          !.last.code = code]
  IN IF code # CleanClose /\ closed.reconnectAttempts < maxReconnectAttempts
       THEN scheduleReconnect(closed)
       ELSE closed

\* socket.onerror
onTransportError(t) == [t EXCEPT !.connectionStatus = "error"]

\* WebSocket.close(): an open socket starts the closing handshake, a socket
\* that is still connecting is aborted.
Close(state) ==
  CASE state = "open" -> "closing"
    [] state = "connecting" -> "aborting"
    [] OTHER -> state

\* disconnect
disconnect(t) ==
  LET closed == IF t.socket = Null THEN t
                ELSE [t EXCEPT !.readyState[t.socket] = Close(@),
                               !.socket = Null]
  IN [closed EXCEPT !.connectionStatus = "disconnected"]

\* cleanup of the WebSocket composable
cleanupTransport(t) == [disconnect(t) EXCEPT !.reconnectAttempts = 0]

\* connect stays within the WebSocket objects of the model.
Creates(t) ==
  \/ t.socket # Null /\ t.readyState[t.socket] = "open"
  \/ Fresh(t) \in Sockets

TransportFrame == UNCHANGED << recorder, validation, payload, presence >>

\* The user calls connect (onMounted does the same).
TransportConnect ==
  /\ transport.asked < MaxTransportCalls
  /\ Creates(transport)
  /\ transport' = [connect(Begin(transport, "connect"))
                     EXCEPT !.wanted = TRUE, !.asked = @ + 1]
  /\ TransportFrame

\* The user calls disconnect.
TransportDisconnect ==
  /\ transport.asked < MaxTransportCalls
  /\ transport' = [disconnect(Begin(transport, "disconnect"))
                     EXCEPT !.wanted = FALSE, !.asked = @ + 1]
  /\ TransportFrame

\* The user calls cleanup (onUnmounted does the same).
TransportCleanup ==
  /\ transport.asked < MaxTransportCalls
  /\ transport' = [cleanupTransport(Begin(transport, "cleanup"))
                     EXCEPT !.wanted = FALSE, !.asked = @ + 1]
  /\ TransportFrame

\* A reconnect timer fires: connect().
ReconnectFires ==
  /\ transport.reconnects > 0
  /\ Creates(transport)
  /\ transport' = connect([Begin(transport, "timer")
                             EXCEPT !.reconnects = @ - 1])
  /\ TransportFrame

\* The connection of socket i is established: its open event.
SocketOpens ==
  /\ \E i \in Sockets :
       /\ transport.readyState[i] = "connecting"
       /\ transport' = onopen([Begin(transport, "open")
                                 EXCEPT !.readyState[i] = "open"])
  /\ TransportFrame

\* The close codes socket i can end with: a clean close needs a connection
\* that was established.
Codes(state) ==
  CASE state \in {"open", "closing"} -> {CleanClose, AbnormalClose}
    [] state \in {"connecting", "aborting"} -> {AbnormalClose}
    [] OTHER -> {}

\* The connection of socket i ends: its close event, after its error event
\* when the end is a failure.
SocketCloses ==
  /\ \E i \in Sockets : \E code \in Codes(transport.readyState[i]) :
       LET ended == [Begin(transport, "close") EXCEPT !.readyState[i] = "closed"]
       IN transport' = onclose(IF code = CleanClose THEN ended
                                 ELSE onTransportError(ended), code)
  /\ TransportFrame

TransportNext ==
  \/ TransportConnect
  \/ TransportDisconnect
  \/ TransportCleanup
  \/ ReconnectFires
  \/ SocketOpens
  \/ SocketCloses

TransportSpec == Init /\ [][TransportNext]_vars

\* ------------------------------------------------------------------------
\* useRealtimeChat over the realtime database, for a user with a nickname.
\* The functions take the composable's state p and give the state at their
\* return.

\* updateUserStatus up to its `await set(userStatusRef, statusData)`: the
\* write is handed to the database, which applies writes in their order.
\* `from` names the caller, whose code goes on when the write has settled.
updateUserStatus(p, isOnline, from) ==
  [p EXCEPT !.writes = Append(@, [state |-> IF isOnline THEN "online"
                                            ELSE "offline",
                                  from |-> from])]

\* updateUserStatus after its await, and then its caller: onDisconnect is
\* registered when going online, the connection listener sets the status
\* 'connected'; a rejected write is logged by both.
afterSet(p, write, ok) ==
  LET applied == IF ok THEN [p EXCEPT !.status = write.state] ELSE p
      online == IF ok /\ write.state = "online"
                  THEN [applied EXCEPT !.onDisconnect = TRUE]
                  ELSE applied
  IN IF ok /\ write.from = "listener"
       THEN [online EXCEPT !.connectionStatus = "connected"]
       ELSE online

\* connect of the realtime-database composable: the listener on
\* .info/connected, the delayed status update, the message listener.
connectPresence(p) ==
  [p EXCEPT !.connectionStatus = "connecting",
            !.listeners = @ + 1,
            !.timers = Append(@, StatusDelay)]

\* The callback of one connection listener.
connectionListener(p, isConnected) ==
  IF isConnected THEN updateUserStatus(p, TRUE, "listener")
  ELSE [p EXCEPT !.connectionStatus = "disconnected"]

\* The callbacks of n connection listeners, one after the other.
RECURSIVE listenersCalled(_, _, _)
listenersCalled(p, n, isConnected) ==
  IF n = 0 THEN p
  ELSE listenersCalled(connectionListener(p, isConnected), n - 1, isConnected)

\* disconnect of the realtime-database composable: the offline write is not
\* awaited; off(isOnlineRef) detaches every callback at .info/connected.
disconnectPresence(p) ==
  [updateUserStatus(p, FALSE, "disconnect")
     EXCEPT !.listeners = 0, !.connectionStatus = "disconnected"]

\* The step stays within the pending writes of the model.
Writable(p) == Len(p.writes) <= MaxWrites

PresenceFrame == UNCHANGED << recorder, validation, payload, transport >>

\* The user calls connect.
PresenceConnect ==
  /\ presence.asked < MaxPresenceCalls
  /\ presence' = [connectPresence(presence)
                    EXCEPT !.wanted = TRUE, !.asked = @ + 1,
                           !.last = "connect"]
  /\ PresenceFrame

\* The user calls disconnect (cleanup and onUnmounted do the same).
PresenceDisconnect ==
  /\ presence.asked < MaxPresenceCalls
  /\ Writable(disconnectPresence(presence))
  /\ presence' = [disconnectPresence(presence)
                    EXCEPT !.wanted = FALSE, !.asked = @ + 1,
                           !.last = "disconnect"]
  /\ PresenceFrame

\* The database client reports its connection state to the listeners.
ConnectionValue ==
  /\ presence.listeners > 0
  /\ \E isConnected \in BOOLEAN :
       /\ Writable(listenersCalled(presence, presence.listeners, isConnected))
       /\ presence' = [listenersCalled(presence, presence.listeners, isConnected)
                         EXCEPT !.last = "listener"]
  /\ PresenceFrame

\* The oldest delayed status update of connect fires.
StatusTimerFires ==
  /\ presence.timers # << >>
  /\ Len(presence.writes) < MaxWrites
  /\ presence' = [updateUserStatus([presence EXCEPT !.timers = Tail(@)],
                                   TRUE, "timer")
                    EXCEPT !.last = "timer"]
  /\ PresenceFrame

\* The oldest write settles: applied or rejected.
WriteSettles ==
  /\ presence.writes # << >>
  /\ \E ok \in BOOLEAN :
       presence' = [afterSet([presence EXCEPT !.writes = Tail(@)],
                             Head(presence.writes), ok)
                      EXCEPT !.last = "set"]
  /\ PresenceFrame

PresenceNext ==
  \/ PresenceConnect
  \/ PresenceDisconnect
  \/ ConnectionValue
  \/ StatusTimerFires
  \/ WriteSettles

PresenceSpec == Init /\ [][PresenceNext]_vars

\* ------------------------------------------------------------------------
\* Properties.
Range(seq) == {seq[i] : i \in DOMAIN seq}

\* The calls of the sink (addMessage + sendVoiceMessage) that carried a clip
\* with audio of recorder k.
SinkCalls(k) == Cardinality({i \in DOMAIN sent : k \in Range(sent[i])})

\* C1: whatever the interleaving of stopRecording, forceStop, the 500 ms
\* watchdog, the auto-stop tick and the deferred processRecording, the sink
\* is never invoked a second time for the clip of one recording session.
C1_SinkOncePerSession == \A k \in Ids : SinkCalls(k) <= 1

\* -------------------------------------------------------------- the steps
\* startRecording is called in this step.
StartCalled == starts' = starts + 1

\* stopRecording or forceStop is called in this step by the component or by
\* another caller (the interval and the watchdog are no callers here).
StopCalled == calls' = calls + 1 /\ starts' = starts

CountKind(queue, kind) ==
  Cardinality({i \in DOMAIN queue : queue[i].kind = kind})

Awaiting(kinds) == \E f \in BagToSet(closers) : f.kind \in kinds

\* A stopRecording call of this session began the teardown and still awaits
\* the close of the audio context.
StopPending == ~isRecordingActive /\ Awaiting({"stop"})

C3_OneLiveStream == Cardinality({k \in Ids : StreamLive(Cur, k)}) <= 1

\* What the composable holds and what the browser still has to run for it.
resources ==
  << isRecordingActive, mediaRecorder, audioStream, recordingTimer,
     audioChunks, audioContext, gainNode, compressorNode, isRecording,
     recordingDuration, physTrack, procTrack, trackStops, ctxState, recState,
     intervals, gumPending, closers, timeouts, procs >>

\* C4: startRecording called while isRecordingActive is true returns false
\* in the same task, asks for no device and leaves the state as it was.
C4_StartWhileActive ==
  [][(StartCalled /\ isRecordingActive) =>
       (event'.ret = "false" /\ UNCHANGED resources)]_vars

\* startRecording has just returned false and the session is still active.
C4_Witness ==
  /\ isRecordingActive
  /\ event.done = {"startRecording"}
  /\ event.ret = "false"

\* The previous session is Stopping or Finalizing: its stop awaits the close
\* of the context, or its processRecording is scheduled or has not finished.
Finishing ==
  \/ Awaiting({"stop", "force", "stopForce"})
  \/ CountKind(timeouts, "process") > 0
  \/ procs # EmptyBag

\* C5: startRecording called while the controller is not Idle (Recording,
\* Stopping or Finalizing) returns false, asks for no device and leaves the
\* chunk buffer and the encoder reference of the previous session alone.
C5_StartWhileBusy ==
  [][(StartCalled /\ (isRecordingActive \/ Finishing)) =>
       /\ event'.ret = "false"
       /\ gumPending' = gumPending
       /\ audioChunks' = audioChunks
       /\ mediaRecorder' = mediaRecorder]_vars

\* Idle: no session is active, the store's flag is down, and the composable
\* holds no stream, no encoder, no timer and no chunk.
Idle ==
  /\ ~isRecordingActive
  /\ ~isRecording
  /\ audioStream = Null
  /\ mediaRecorder = Null
  /\ recordingTimer = Null
  /\ audioChunks = << >>

\* startRecording's catch block has just returned false.
StartFailed ==
  /\ event.ret = "false"
  /\ {"cleanup", "startRecording"} \subseteq event.done

\* C6: when getUserMedia fails, startRecording returns false without
\* throwing and the controller is Idle when it returns.
C6_DeniedStartEndsIdle == StartFailed => (Idle /\ ~escaped)

C8_CleanupReleasesAll ==
  ("cleanup" \in event.done) =>
     /\ Idle
     /\ audioContext = Null /\ ~gainNode /\ ~compressorNode
     /\ \A k \in Ids : ~StreamLive(Cur, k)

\* C9: once stopRecording, forceStop or cleanup has ended the session,
\* every microphone track getUserMedia handed out has been stopped, also
\* when the conditioning graph put its own tracks in the stream.
C9_MicTracksStopped ==
  (/\ event.done \cap {"stopRecording", "forceStop", "cleanup"} # {}
   /\ ~isRecordingActive
   /\ audioStream = Null) =>
     \A k \in Ids : physTrack[k] # "live"

\* Nothing is left to run and no session is active.
Quiet ==
  /\ ~isRecordingActive
  /\ gumPending = 0
  /\ closers = EmptyBag
  /\ timeouts = << >>
  /\ procs = EmptyBag

\* C10 (under ForceSpec, where every call after the first is a forceStop):
\* after two forceStop calls in succession, once nothing is left to run,
\* every handle is released and the controller is Idle, and no error has
\* got out.
C10_ForceStopTwice ==
  (calls - starts >= 2 /\ Quiet) =>
     /\ Idle
     /\ audioContext = Null
     /\ \A k \in Ids : physTrack[k] # "live" /\ procTrack[k] # "live"
     /\ \A k \in Ids : recState[k] # "recording"
     /\ ~escaped

\* C11: the tick that takes the elapsed counter of a recording to 30 calls
\* stopRecording itself: the session is no longer active when the tick has
\* run.
C11_StopsAtThirty ==
  [][(isRecordingActive /\ event'.reported = << AutoStopAfter >>) =>
       ~isRecordingActive']_vars

\* C12: no value passed to updateRecordingDuration exceeds 30.
C12_ReportedAtMostThirty ==
  \A i \in DOMAIN event.reported : event.reported[i] <= AutoStopAfter

\* The no-audio alerts shown for a clip with audio of recorder k.
AlertCalls(k) == Cardinality({i \in DOMAIN advised : k \in Range(advised[i])})

\* C14: when validateAudio rejects the clip of a session, the no-audio
\* alert is shown once for that session and not again, and the clip is not
\* handed to addMessage and sendVoiceMessage.
C14_RejectedClip ==
  \A k \in Ids :
    /\ AlertCalls(k) <= 1
    /\ AlertCalls(k) > 0 => SinkCalls(k) = 0

\* A setTimeout(processRecording) callback runs in this step.
ProcessRan == CountKind(timeouts', "process") < CountKind(timeouts, "process")

\* C15: processRecording that finds the chunk buffer empty does not call
\* validateAudio, shows no alert, hands nothing to the sink and calls
\* cleanup at once.
C15_EmptyBufferSkips ==
  [][(ProcessRan /\ audioChunks = << >>) =>
       /\ "validateAudio" \notin event'.done
       /\ "alert" \notin event'.done
       /\ procs' = procs /\ sent' = sent /\ advised' = advised
       /\ ("cleanup" \in event'.done \/ closers' # closers)]_vars

\* processRecording has found no chunk and its cleanup has returned.
C15_Witness == {"noChunks", "cleanup", "processRecording"} \subseteq event.done

\* C16: the chunks a stopped session has buffered stay in the buffer until
\* processRecording has handed them to validateAudio, whatever else is
\* called in between: they are emptied only when a clip made of them is
\* with processRecording, or by the task that validates them or in which
\* processRecording returns.
C16_StopKeepsChunks ==
  [][(~isRecordingActive /\ audioChunks # << >> /\ audioChunks' = << >>) =>
       \/ \E p \in BagToSet(procs) : p.blob = audioChunks
       \/ "validateAudio" \in event'.done
       \/ "processRecording" \in event'.done]_vars

\* C17: validateAudio returns false for every clip under 500 bytes, without
\* having created a decode context, and goes on to decode a clip of 500
\* bytes or more.
C17_SizeFloor ==
  /\ (validation.pc = "returned" /\ validation.size < 500) =>
        (~validation.result /\ validation.ctx = "none")
  /\ (/\ validation.pc \notin {"idle", "called"}
      /\ validation.size >= 500
      /\ validation.decodes # "noContext") =>
        validation.ctx # "none"

\* A clip of 499 bytes has been rejected.
C17_Witness ==
  /\ validation.pc = "returned"
  /\ validation.size = 499
  /\ ~validation.result

\* The statistics of the decision, taken over the runs of the channel.
Samples(data) == Analyse(data).length

AverageOver(data, floor) == Analyse(data).sum > floor * Samples(data)

PeakOver(data, floor) == \E i \in DOMAIN data : data[i].amp > floor

ContentOver(data, parts) ==
  Analyse(data).nonZeroSamples * parts > Samples(data)

\* C18: for a decoded clip of at least 500 bytes validateAudio returns true
\* if and only if (average > 0.001 or peak > 0.01 or content ratio > 0.1)
\* and the decoded duration is over 0.5 s.
C18_Decision ==
  (/\ validation.pc = "returned"
   /\ validation.decodes = "ok"
   /\ validation.size >= 500) =>
     (validation.result <=>
        /\ \/ AverageOver(validation.data, 10)
           \/ PeakOver(validation.data, 100)
           \/ ContentOver(validation.data, 10)
        /\ validation.tenths > 5)

\* A loud clip of 0.5 s has been decoded and rejected.
C18_Witness ==
  /\ validation.pc = "returned"
  /\ validation.decodes = "ok"
  /\ validation.size >= 500
  /\ validation.tenths = 5
  /\ PeakOver(validation.data, 100)
  /\ ~validation.result

\* C19: when the decode fails validateAudio returns, and returns true if and
\* only if size > 500 and size / 16000 > 0.5.
C19_DecodeFailure ==
  (/\ validation.pc = "returned"
   /\ validation.decodes = "fails"
   /\ validation.size >= 500) =>
     (validation.result <=>
        (validation.size > 500 /\ 2 * validation.size > 16000))

\* A clip of 8001 bytes that does not decode has been accepted.
C19_Witness ==
  /\ validation.pc = "returned"
  /\ validation.decodes = "fails"
  /\ validation.size = 8001
  /\ validation.result

\* C20: when validateAudio has returned, the decode context it created, if
\* any, is closed.
C20_DecodeContextClosed ==
  validation.pc = "returned" => validation.ctx \in {"none", "closed"}

\* C13: the duration of every message handed to the sink is a whole number
\* of seconds from 1 to 30, whichever way getAudioDuration resolved.
C13_PayloadDuration ==
  payload.pc = "sent" =>
    /\ payload.duration % 10 = 0
    /\ payload.duration >= 10
    /\ payload.duration <= 300

\* A clip whose metadata give 0.4 s, rounded to 0, has been sent with 1 s.
C13_Witness ==
  /\ payload.pc = "sent"
  /\ payload.meta = [kind |-> "finite", tenths |-> 4]
  /\ payload.size = 496000
  /\ payload.duration = 10

\* setupAudioProcessing threw while it built the graph for stream k: the
\* stream was handed out and no destination track was put in it.
GraphFailed(k) == physTrack[k] # "none" /\ procTrack[k] = "none"

\* C21: when setupAudioProcessing throws, startRecording still returns true
\* and the session records stream k with the microphone track in it, and
\* once the sessions have ended and nothing is left to run the context
\* made before the throw is closed.
C21_GraphFailureNotFatal ==
  /\ (event.ret = "true" /\ GraphFailed(audioStream)) =>
       /\ isRecordingActive
       /\ physTrack[audioStream] = "live"
       /\ mediaRecorder = audioStream
       /\ recState[audioStream] = "recording"
  /\ Quiet =>
       \A k \in Ids : (GraphFailed(k) /\ ctxState[k] # "none") =>
                        ctxState[k] = "closed"

\* C22: the mimeType of every MediaRecorder is the first of
\* audio/webm;codecs=opus, audio/ogg;codecs=opus and audio/mp4 that the
\* platform supports, and audio/webm when it supports none of them.
C22_FirstSupportedCodec ==
  \A k \in Ids : recState[k] # "none" =>
    /\ mimeType[k] = "audio/webm;codecs=opus" <=>
         "audio/webm;codecs=opus" \in supported
    /\ mimeType[k] = "audio/ogg;codecs=opus" <=>
         /\ "audio/webm;codecs=opus" \notin supported
         /\ "audio/ogg;codecs=opus" \in supported
    /\ mimeType[k] = "audio/mp4" <=>
         /\ "audio/webm;codecs=opus" \notin supported
         /\ "audio/ogg;codecs=opus" \notin supported
         /\ "audio/mp4" \in supported
    /\ mimeType[k] = "audio/webm" <=>
         supported \cap {"audio/webm;codecs=opus", "audio/ogg;codecs=opus",
                         "audio/mp4"} = {}

\* A recorder was opened on a platform that supports none of the three.
C22_Witness ==
  /\ supported = {}
  /\ \E k \in Ids : recState[k] = "recording" /\ mimeType[k] = "audio/webm"

\* C23: the chunk buffer takes the non-empty chunks that the encoder of the
\* session delivers while isRecordingActive is true, in the order they
\* arrive, and nothing else: an empty chunk, a chunk delivered while
\* isRecordingActive is false, and a chunk of an encoder whose session has
\* been stopped are not appended, and no other task adds to the buffer.
C23_BufferIsChunksWhileActive ==
  [][IF event'.chunk # << >>
     THEN IF /\ event'.chunk[2] > 0
             /\ isRecordingActive
             /\ event'.chunk[1] = mediaRecorder
          THEN audioChunks' = Append(audioChunks, event'.chunk[1])
          ELSE audioChunks' = audioChunks
     ELSE audioChunks' \in {audioChunks, << >>}]_vars

\* C24: a non-empty chunk that the encoder of the stopped session delivers
\* after stopRecording has stopped it, while the deferred processRecording
\* has not run yet, is in the chunk buffer when the task has run, and so in
\* the clip processRecording validates.
C24_StopFlushIsKept ==
  [][(/\ event'.chunk # << >>
      /\ event'.chunk[2] > 0
      /\ event'.chunk[1] = mediaRecorder
      /\ recState[mediaRecorder] = "inactive"
      /\ CountKind(timeouts, "process") > 0) =>
        mediaRecorder \in Range(audioChunks')]_vars

C26_NoRetryOnSinkFailure ==
  event.rejected # << >> =>
    \A k \in Range(event.rejected) : SinkCalls(k) = 1

\* The value a resolution by the metadata event is to have.
Reported(p) ==
  IF p.meta.kind = "finite" /\ p.meta.tenths > 0
  THEN 10 * ((p.meta.tenths + 5) \div 10)
  ELSE 10 * Max(1, p.size \div 16000)

\* C27: the promise of getAudioDuration settles once and for all; it
\* settles with the rounded duration when the metadata event comes first
\* with a finite positive value, and with max(1, floor(size / 16000))
\* otherwise; an event that comes after it has settled leaves the value
\* alone; and as long as it is pending the timeout is armed and settles it
\* in the end.
C27_DurationResolvesOnce ==
  /\ [][/\ payload.pc # "idle" /\ payload.settled =>
             payload'.settled /\ payload'.value = payload.value
        /\ (payload.pc = "awaiting" /\ payload'.settled) =>
             payload'.value =
               IF "loadedmetadata" \in payload'.media THEN Reported(payload)
               ELSE 10 * Max(1, payload.size \div 16000)]_vars
  /\ [](payload.pc = "awaiting" => ~payload.settled /\ payload.timer = "armed")
  /\ [](payload.pc \in {"reading", "sent", "failed"} => payload.settled)
  /\ (payload.pc = "awaiting") ~> (payload.pc # "awaiting")

\* The timeout has resolved with the estimate, and the metadata event that
\* came later, with another duration, has left it alone.
C27_Witness ==
  /\ payload.pc \notin {"idle", "called", "awaiting"}
  /\ payload.timer = "fired"
  /\ "loadedmetadata" \in payload.media
  /\ payload.meta = [kind |-> "finite", tenths |-> 15]
  /\ payload.size = 512000
  /\ payload.value = 320

\* The stop frames that await the close of the audio context.
StopFrames(bag) == Cardinality({f \in BagToSet(bag) : f.kind = "stop"})

\* C28: an error event of the encoder of the recording session stops the
\* session as a user stop does: stopRecording runs, isRecordingActive and
\* the store's flag are false, the stream and the timer are released, the
\* chunks buffered before the error stay in the buffer, and the deferred
\* processRecording is scheduled or will be once the context has closed.
C28_EncoderErrorStops ==
  [][(/\ "onerror" \in event'.done
      /\ isRecordingActive
      /\ event'.chunk[1] = mediaRecorder) =>
        /\ ~isRecordingActive'
        /\ ~isRecording'
        /\ audioStream' = Null
        /\ recordingTimer' = Null
        /\ audioChunks' = audioChunks
        /\ \/ CountKind(timeouts', "process") =
                CountKind(timeouts, "process") + 1
           \/ StopFrames(closers') > StopFrames(closers)]_vars

\* The encoder of a session with a chunk buffered has failed, and the
\* session's processRecording is scheduled.
C28_Witness ==
  /\ {"onerror", "stopRecording"} \subseteq event.done
  /\ ~isRecordingActive
  /\ audioChunks # << >>
  /\ CountKind(timeouts, "process") > 0

\* The condition under which stopRecording falls back on forceStop.
Disagrees ==
  \/ isRecording
  \/ audioStream # Null
  \/ (mediaRecorder # Null /\ recState[mediaRecorder] = "recording")

\* forceStop has run in this step for stopRecording: it has returned, or it
\* awaits the close of the context.
Delegated ==
  \/ "forceStop" \in event'.done
  \/ \E f \in BagToSet(closers') :
       f.kind = "stopForce" /\ CopiesIn(f, closers') > CopiesIn(f, closers)

\* C29: stopRecording called while isRecordingActive is false goes through
\* forceStop if and only if the store's flag is up, a stream is held or the
\* encoder is recording; otherwise it changes nothing and schedules no
\* processRecording.  (Under Spec every call that is not a start is the
\* component's stopRecording, which sets its watchdog when the call returns.)
C29_StopWhenInactive ==
  [][(StopCalled /\ ~isRecordingActive) =>
       IF Disagrees THEN Delegated
       ELSE /\ ~Delegated
            /\ UNCHANGED << isRecordingActive, mediaRecorder, audioStream,
                            recordingTimer, audioChunks, audioContext,
                            gainNode, compressorNode, isRecording,
                            recordingDuration, physTrack, procTrack,
                            trackStops, ctxState, recState, intervals,
                            gumPending, closers, procs >>
            /\ CountKind(timeouts', "process") =
                 CountKind(timeouts, "process")]_vars

\* A second stopRecording call on a session whose encoder the first has
\* stopped has returned at once.
C29_Witness ==
  /\ event.done = {"stopRecording"}
  /\ mediaRecorder # Null
  /\ recState[mediaRecorder] = "inactive"
  /\ CountKind(timeouts, "process") = 1
  /\ CountKind(timeouts, "watchdog") = 2

\* The watchdog that fires next: timers of equal delay fire in the order
\* they were set.
FirstWatchdog ==
  timeouts[CHOOSE i \in DOMAIN timeouts :
             /\ timeouts[i].kind = "watchdog"
             /\ \A j \in 1..(i - 1) : timeouts[j].kind # "watchdog"]

\* A watchdog callback runs in this step.
WatchdogRan ==
  CountKind(timeouts', "watchdog") < CountKind(timeouts, "watchdog")

\* C30: the watchdog that a stop has set never force-stops a session that
\* was started by a startRecording call made after that stop: the stream
\* of the session it stops is one of those the calls made before the stop
\* could have been given.
C30_WatchdogKeepsLaterSession ==
  [][(WatchdogRan /\ isRecordingActive /\ ~isRecordingActive') =>
       mediaRecorder <= FirstWatchdog.after]_vars

\* C31 (under PressSpec, where a call made after the first is a stop call
\* made after startRecording was called): when a stop call has come while
\* startRecording is waiting for getUserMedia, no session becomes active.
C31_StopWhilePendingNotLost ==
  [][(gumPending > 0 /\ calls > starts /\ ~isRecordingActive) =>
       ~isRecordingActive']_vars

\* C32: a deferred processRecording that runs while a session is recording
\* (a session that became active after the stop that scheduled it) leaves
\* that session alone: its chunk buffer, its tracks, its encoder and
\* isRecordingActive stay as they are.
C32_ProcessKeepsLaterSession ==
  [][(ProcessRan /\ isRecordingActive) =>
       /\ isRecordingActive'
       /\ audioChunks' = audioChunks
       /\ audioStream' = audioStream
       /\ trackStops' = trackStops
       /\ mediaRecorder' = mediaRecorder
       /\ recState' = recState]_vars

\* C33: whenever the store's isRecording is false its recordingDuration is
\* 0.
C33_CounterZeroWhenIdle == ~isRecording => recordingDuration = 0

\* The tick that stops the session by itself has passed its count to the
\* store, and the stop has reset the counter.
C33_Witness ==
  /\ event.reported = << AutoStopAfter + 1 >>
  /\ ~isRecording
  /\ recordingDuration = 0

\* C34: between two callbacks, isRecordingActive is true if and only if the
\* recording timer is armed, and while it is true the store's flag is up
\* and the composable holds a stream and an encoder.
C34_ActiveMeansEquipped ==
  /\ isRecordingActive <=>
       (recordingTimer # Null /\ intervals[recordingTimer] = "armed")
  /\ isRecordingActive =>
       (isRecording /\ audioStream # Null /\ mediaRecorder # Null)

\* onUnmounted has run and its cleanup has returned.
Unmounted ==
  /\ ~mounted
  /\ \A f \in BagToSet(closers) : ~(f.kind = "cleanup" /\ f.then = "unmount")

\* C35: once the cleanup of onUnmounted has run, the composable holds no
\* stream, no recording encoder and no armed timer, at any later time.
C35_NothingHeldAfterUnmount ==
  Unmounted =>
    /\ audioStream = Null
    /\ mediaRecorder = Null \/ recState[mediaRecorder] # "recording"
    /\ recordingTimer = Null

\* C36: while the user's last call was disconnect or cleanup, no WebSocket
\* is created: a reconnect timer set earlier does not open one.
C36_NoReconnectAfterDisconnect ==
  [][(~transport.wanted /\ ~transport'.wanted) =>
       transport'.last.opened = 0]_vars

\* C37: reconnectAttempts stays within maxReconnectAttempts and the delay
\* within MaxReconnectDelay; a step schedules a reconnect only below the
\* maximum and not on a clean close, it schedules it with the current delay
\* and doubles the delay up to the maximum; an open event resets the counter
\* to 0 and the delay to InitialReconnectDelay.
C37_BoundedBackoff ==
  /\ [](/\ transport.reconnectAttempts <= maxReconnectAttempts
        /\ transport.reconnectDelay <= MaxReconnectDelay)
  /\ [][/\ transport'.reconnects > transport.reconnects =>
             /\ transport.reconnectAttempts < maxReconnectAttempts
             /\ transport'.last.code # CleanClose
             /\ transport'.reconnectAttempts = transport.reconnectAttempts + 1
             /\ transport'.last.scheduled = transport.reconnectDelay
             /\ transport'.reconnectDelay =
                  Min(2 * transport.reconnectDelay, MaxReconnectDelay)
        /\ transport'.last.op = "open" =>
             /\ transport'.reconnectAttempts = 0
             /\ transport'.reconnectDelay = InitialReconnectDelay]_vars

\* A socket failed after the last allowed reconnect: nothing was scheduled,
\* and the delay had reached its maximum.
C37_Witness ==
  /\ transport.last.op = "close"
  /\ transport.last.code = AbnormalClose
  /\ transport.last.scheduled = 0
  /\ transport.reconnectAttempts = maxReconnectAttempts
  /\ transport.reconnectDelay = MaxReconnectDelay

\* The offline write of the last disconnect has been applied, and connect
\* has not been called since.
WrittenOffline ==
  /\ ~presence.wanted
  /\ presence.status = "offline"
  /\ \A i \in DOMAIN presence.writes : presence.writes[i].state # "offline"

\* C38: once disconnect has written the status offline, no step other than a
\* new connect leads to the status online: not the delayed status update of
\* an earlier connect, not a connection listener.
C38_OfflineUntilConnect ==
  [][(WrittenOffline /\ ~presence'.wanted) =>
       presence'.status # "online"]_vars

====
